---- MODULE Spec2Model ----
(***************************************************************************)
(* rallyup: wake a fleet of servers in dependency order.                   *)
(*                                                                         *)
(*   servers.rs  determine_wakeup_order / depth_first_search: the          *)
(*               dependency resolver (a pure function, modelled as         *)
(*               operators and exercised by ResolverSpec).                 *)
(*   main.rs     main / perform_health_checks / update_server_status: the  *)
(*               orchestrator, its check tasks and the renderer task,      *)
(*               sharing the status table behind one mutex (Spec).         *)
(*   wol.rs      build_wol_packet / send_wol_packet: frame construction,   *)
(*               byte by byte, and transmission (WolSpec).                 *)
(***************************************************************************)
EXTENDS Integers, Sequences, FiniteSets, TLC

\* ------------------------------------------------------------------ bounds
\* servers in an orchestrated run
MaxServers == 2
\* health checks in the configuration of an orchestrated run
MaxChecks == 2
\* largest per-check timeout, in clock ticks
MaxTimeout == 2
\* largest retry interval, in clock ticks
MaxRetry == 1
\* the attempt counter of a check saturates here
MaxAttempts == 2
\* servers in a resolver input
MaxGraph == 3
\* entries in one server's depends list
MaxDepends == 2
\* health checks of the server whose definitions are validated
MaxMethods == 2
\* servers in a resolver input whose servers each depend on at most one name
MaxChain == 4

VARIABLES
    servers,        \* the parsed configuration: Vec<servers::Server>
    wake_order,     \* main: the resolver's output
    result,         \* what main (or determine_wakeup_order) returned
    server_state,   \* Arc<Mutex<Vec<Server>>>: the status table
    lock,           \* the holder of the table's mutex
    mpc,            \* main's position
    server_index,   \* main: the loop variable of the wake loop
    check_index,    \* perform_health_checks: the loop variable of the launch loop
    tasks,          \* perform_health_checks: the spawned check tasks
    join_index,     \* perform_health_checks: the task being awaited
    timeout,        \* perform_health_checks: the local flag
    phc_ret,        \* perform_health_checks: the value returned to main
    rpc,            \* update_server_status: the renderer's position
    sent,           \* the frames put on the wire, as indices into wake_order
    packet_buffer,  \* send_wol_packet: the frame build_wol_packet returned
    response,       \* check_health: what the request, connect or command came to
    health          \* check_health: what it returned

vars == <<servers, wake_order, result, server_state, lock, mpc, server_index,
          check_index, tasks, join_index, timeout, phc_ret, rpc, sent, packet_buffer,
          response, health>>

\* ------------------------------------------------------------ small helpers
Range(s) == {s[i] : i \in DOMAIN s}

Min(a, b) == IF a < b THEN a ELSE b

SeqsUpTo(S, n) == UNION {[1..k -> S] : k \in 0..n}

\* the position of the first server called name in order, 0 when there is none
IndexOf(order, name) ==
    IF \E i \in DOMAIN order : order[i].name = name
    THEN CHOOSE i \in DOMAIN order :
            /\ order[i].name = name
            /\ \A j \in 1..(i - 1) : order[j].name # name
    ELSE 0

\* ------------------------------------------------------- servers.rs: errors
NoErr == <<"", "">>

UndefinedDependency(name) == <<"UndefinedDependency", name>>

CircularDependency(name) == <<"CircularDependency", name>>

\* ------------------------------------------- servers.rs: the resolver (pure)
\* HashMap<String, &Server> collected from (name, server) pairs in input
\* order: a later server replaces an earlier one of the same name.
map_server_names(svs) ==
    [n \in {svs[i].name : i \in DOMAIN svs} |->
        svs[CHOOSE i \in DOMAIN svs :
                /\ svs[i].name = n
                /\ \A j \in DOMAIN svs : svs[j].name = n => j <= i]]

\* The traversal state threaded through the recursion: the error of the `?`
\* that fired (NoErr while none has), and the three &mut collections.
DfsStart == [err |-> NoErr, visited |-> {}, visiting |-> {}, sorted |-> <<>>]

RECURSIVE depth_first_search(_, _, _)
RECURSIVE dfs_depends(_, _, _, _)

\* a mutant of dfs_depends: a depends entry that names no server is skipped
dfs_depends_skip(server, k, server_from_name, st) ==
    IF k > Len(server.depends) THEN st
    ELSE LET dep == server.depends[k] IN
         IF dep \notin DOMAIN server_from_name
         THEN dfs_depends(server, k + 1, server_from_name, st)
         ELSE LET st1 == depth_first_search(server_from_name[dep], server_from_name, st) IN
              IF st1.err # NoErr THEN st1
              ELSE dfs_depends(server, k + 1, server_from_name, st1)

\* a mutant of dfs_depends: the in-progress test is made on the edge, before
\* the call, and the error carries the name of the server that lists dep
dfs_depends_parent(server, k, server_from_name, st) ==
    IF k > Len(server.depends) THEN st
    ELSE LET dep == server.depends[k] IN
         IF dep \notin DOMAIN server_from_name
         THEN [st EXCEPT !.err = UndefinedDependency(dep)]
         ELSE IF dep \in st.visiting
         THEN [st EXCEPT !.err = CircularDependency(server.name)]
         ELSE LET st1 == depth_first_search(server_from_name[dep], server_from_name, st) IN
              IF st1.err # NoErr THEN st1
              ELSE dfs_depends(server, k + 1, server_from_name, st1)

\* for dep in &server.depends { lookup?; depth_first_search(...)?; }
dfs_depends(server, k, server_from_name, st) ==
    IF k > Len(server.depends) THEN st
    ELSE LET dep == server.depends[k] IN
         IF dep \notin DOMAIN server_from_name
         THEN [st EXCEPT !.err = UndefinedDependency(dep)]
         ELSE LET st1 == depth_first_search(server_from_name[dep], server_from_name, st) IN
              IF st1.err # NoErr THEN st1
              ELSE dfs_depends(server, k + 1, server_from_name, st1)

\* a mutant of depth_first_search: the visited test is missing
depth_first_search_revisit(server, server_from_name, st) ==
    IF server.name \in st.visiting
    THEN [st EXCEPT !.err = CircularDependency(server.name)]
    ELSE LET st1 == [st EXCEPT !.visiting = @ \cup {server.name}]
             st2 == dfs_depends(server, 1, server_from_name, st1)
         IN IF st2.err # NoErr THEN st2
            ELSE [st2 EXCEPT !.visiting = @ \ {server.name},
                             !.visited = @ \cup {server.name},
                             !.sorted = Append(@, server.name)]

\* if visiting.contains(..) { return Err }; if visited.contains(..) { return Ok };
\* the dependencies first, then sorted.push(server.name)
depth_first_search(server, server_from_name, st) ==
    IF server.name \in st.visiting
    THEN [st EXCEPT !.err = CircularDependency(server.name)]
    ELSE IF server.name \in st.visited THEN st
    ELSE LET st1 == [st EXCEPT !.visiting = @ \cup {server.name}]
             st2 == dfs_depends(server, 1, server_from_name, st1)
         IN IF st2.err # NoErr THEN st2
            ELSE [st2 EXCEPT !.visiting = @ \ {server.name},
                             !.visited = @ \cup {server.name},
                             !.sorted = Append(@, server.name)]

RECURSIVE wakeup_loop(_, _, _, _)
\* a mutant of wakeup_loop: the servers are taken from the last to the first
wakeup_loop_reversed(svs, i, server_from_name, st) ==
    IF i > Len(svs) THEN st
    ELSE LET server == svs[Len(svs) + 1 - i] IN
         IF server.name \in st.visited
         THEN wakeup_loop(svs, i + 1, server_from_name, st)
         ELSE LET st1 == depth_first_search(server, server_from_name, st) IN
              IF st1.err # NoErr THEN st1
              ELSE wakeup_loop(svs, i + 1, server_from_name, st1)

\* for server in servers { if !visited.contains(..) { depth_first_search(..)?; } }
wakeup_loop(svs, i, server_from_name, st) ==
    IF i > Len(svs) THEN st
    ELSE IF svs[i].name \in st.visited
         THEN wakeup_loop(svs, i + 1, server_from_name, st)
         ELSE LET st1 == depth_first_search(svs[i], server_from_name, st) IN
              IF st1.err # NoErr THEN st1
              ELSE wakeup_loop(svs, i + 1, server_from_name, st1)

\* Result<Vec<Server>, ServerConfigError>: [err, order]; order is <<>> on Err.
determine_wakeup_order(svs) ==
    LET server_from_name == map_server_names(svs)
        st == wakeup_loop(svs, 1, server_from_name, DfsStart)
    IN IF st.err # NoErr
       THEN [err |-> st.err, order |-> <<>>]
       ELSE [err |-> NoErr,
             order |-> [k \in DOMAIN st.sorted |-> server_from_name[st.sorted[k]]]]

\* ------------------------------------ servers.rs: health-check validation
\* Option<T> is <<>> (None) or <<v>> (Some(v)).
None == <<>>

Some(v) == <<v>>

\* the strings ip.parse::<IpAddr>() accepts, among those the model draws
ValidIPs == {"192.168.1.1", "::1"}

BadHealthCheckDefinition(what) == <<"BadHealthCheckDefinition", what>>

\* a mutant of validate_health_check: an Http check must give both a status
\* and a regex
validate_health_check_both(method) ==
    IF method.type = "http"
    THEN IF method.status = None \/ method.regex = None
         THEN BadHealthCheckDefinition("http") ELSE NoErr
    ELSE IF method.type = "port"
    THEN IF method.ip \notin ValidIPs
         THEN BadHealthCheckDefinition("port") ELSE NoErr
    ELSE IF method.status = None /\ method.regex = None
         THEN BadHealthCheckDefinition("shell") ELSE NoErr

validate_health_check(method) ==
    IF method.type = "http"
    THEN IF method.status = None /\ method.regex = None
         THEN BadHealthCheckDefinition("http") ELSE NoErr
    ELSE IF method.type = "port"
    THEN IF method.ip \notin ValidIPs
         THEN BadHealthCheckDefinition("port") ELSE NoErr
    ELSE IF method.status = None /\ method.regex = None
         THEN BadHealthCheckDefinition("shell") ELSE NoErr

RECURSIVE validate_checks(_, _)
\* for healthcheck in &server.check { validate_health_check(healthcheck)?; }
validate_checks(checks, k) ==
    IF k > Len(checks) THEN NoErr
    ELSE LET e == validate_health_check(checks[k].method) IN
         IF e # NoErr THEN e ELSE validate_checks(checks, k + 1)

RECURSIVE validate_servers(_, _)
\* for server in &servers { ... }
validate_servers(svs, i) ==
    IF i > Len(svs) THEN NoErr
    ELSE LET e == validate_checks(svs[i].check, 1) IN
         IF e # NoErr THEN e ELSE validate_servers(svs, i + 1)

\* The file is read and deserialized before the model starts: servers is the
\* deserialized Vec<Server>.
parse_server_dependencies(svs) ==
    LET e == validate_servers(svs, 1) IN
    IF e # NoErr THEN [err |-> e, order |-> <<>>]
    ELSE determine_wakeup_order(svs)

\* --------------------------------------- servers.rs: the check evaluators
\* regex.is_match(text), for the patterns and texts the model draws
Matches == {<<"ok", "status: ok">>, <<"ok", "ok, up">>, <<"up", "ok, up">>}

is_match(regex, text) == <<regex, text>> \in Matches

\* What an evaluator returns, with the conditions it tested on the way:
\* [ok, tested].
Verdict(ok, tested) == [ok |-> ok, tested |-> tested]

\* a mutant of http_health_check: a status mismatch does not return, and
\* the regex decides
http_health_check_fallthrough(expected_status, payload_regex, rsp) ==
    IF ~rsp.completed THEN Verdict(FALSE, <<>>)
    ELSE LET tested == IF expected_status # None THEN <<"status">> ELSE <<>> IN
         IF payload_regex # None
         THEN Verdict(rsp.body # None /\ is_match(payload_regex[1], rsp.body[1]),
                      Append(tested, "regex"))
         ELSE Verdict(TRUE, tested)

\* rsp: reqwest::get(url) completed or not, response.status(), and
\* response.text() as Some(body) or None when reading the body failed
http_health_check(expected_status, payload_regex, rsp) ==
    IF ~rsp.completed THEN Verdict(FALSE, <<>>)
    ELSE IF expected_status # None /\ rsp.status # expected_status
    THEN Verdict(FALSE, <<"status">>)
    ELSE LET tested == IF expected_status # None THEN <<"status">> ELSE <<>> IN
         IF payload_regex # None
         THEN Verdict(rsp.body # None /\ is_match(payload_regex[1], rsp.body[1]),
                      Append(tested, "regex"))
         ELSE Verdict(TRUE, tested)

\* TcpStream::connect(address).await.is_ok()
port_health_check(rsp) == Verdict(rsp.completed, <<>>)

\* rsp: the command was spawned and ran or not, output.status.code() (None
\* when a signal ended it), and Some(stdout)
shell_health_check(expected_status, payload_regex, rsp) ==
    IF ~rsp.completed THEN Verdict(FALSE, <<>>)
    ELSE IF expected_status # None /\ rsp.status # expected_status
    THEN Verdict(FALSE, <<"status">>)
    ELSE LET tested == IF expected_status # None THEN <<"status">> ELSE <<>> IN
         IF payload_regex # None
         THEN Verdict(is_match(payload_regex[1], rsp.body[1]), Append(tested, "regex"))
         ELSE Verdict(TRUE, tested)

check_health(method, rsp) ==
    IF method.type = "http" THEN http_health_check(method.status, method.regex, rsp)
    ELSE IF method.type = "port" THEN port_health_check(rsp)
    ELSE shell_health_check(method.status, method.regex, rsp)

\* ------------------------------------------------------------------ wol.rs
SIZE_DST_MAC == 6

SIZE_SRC_MAC == 6

SIZE_ETHERTYPE == 2

SIZE_VLAN_ETHERTYPE == 2

SIZE_VLAN_TAG == 2

SIZE_WOL_PAYLOAD == 102

WOL_ETHERTYPE == <<8, 66>>

\* pnet's EtherTypes::Vlan (0x8100) and EtherTypes::WakeOnLan (0x0842)
EtherTypes_Vlan == 33024

EtherTypes_WakeOnLan == 2114

\* the largest u16
U16_MAX == 65535

\* the strings maybe_mac.parse::<MacAddr>() accepts, among those the model draws
ValidMACs == {"00:11:22:33:44:55", "01:23:45:67:89:AB"}

\* mac.octets() of a parsed address
octets(mac) ==
    IF mac = "00:11:22:33:44:55" THEN <<0, 17, 34, 51, 68, 85>>
    ELSE <<1, 35, 69, 103, 137, 171>>

\* datalink::interfaces() of the host: name |-> iface.mac, as its octets
HostInterfaces == [eth0 |-> Some(<<2, 66, 172, 17, 0, 2>>), tun0 |-> None]

InvalidMAC(mac) == <<"InvalidMAC", mac>>

InterfaceNotFound(name) == <<"InterfaceNotFound", name>>

NetworkError(what) == <<"NetworkError", what>>

WOLPacketError(what) == <<"WOLPacketError", what>>

\* a panic of the standard library, which unwinds through build_wol_packet
Panic(what) == <<"Panic", what>>

\* vec![byte; n]
vec(byte, n) == [k \in 1..n |-> byte]

\* a & b on unsigned integers, bit by bit
RECURSIVE BitAnd(_, _)
BitAnd(a, b) ==
    IF a = 0 \/ b = 0 THEN 0
    ELSE (a % 2) * (b % 2) + 2 * BitAnd(a \div 2, b \div 2)

\* a mutant of to_be_bytes: the low byte is written first
to_be_bytes_le(v) == <<v % 256, v \div 256>>

\* u16::to_be_bytes
to_be_bytes(v) == <<v \div 256, v % 256>>

\* buffer[at..at + src.len()].copy_from_slice(src), with at counted from 0
copy_from_slice(buffer, at, src) ==
    [k \in DOMAIN buffer |->
        IF k > at /\ k <= at + Len(src) THEN src[k - at] ELSE buffer[k]]

RECURSIVE extend_times(_, _, _)
\* for _ in 0..n { packet.extend_from_slice(slice); }
extend_times(packet, slice, n) ==
    IF n = 0 THEN packet ELSE extend_times(packet \o slice, slice, n - 1)

\* a mutant of create_wol_payload: the address is repeated 15 times
create_wol_payload_15(mac) == extend_times(vec(255, 6), mac, 15)

\* 6 bytes of FF followed by the target MAC repeated 16 times
create_wol_payload(mac) == extend_times(vec(255, 6), mac, 16)

\* a mutant of vlan_to_bytes: the id is written unmasked
vlan_to_bytes_unmasked(vlan) == to_be_bytes(vlan)

vlan_to_bytes(vlan) == to_be_bytes(BitAnd(vlan, 4095))

\* build_wol_packet from the buffer on: sizes, header, optional tag, payload.
\* MutableEthernetPacket::new refuses a buffer shorter than the 14 header
\* bytes, after which the Ethernet payload starts; copy_from_slice panics
\* when source and destination differ in length.
write_frame(wol_packet, source, vlan_id) ==
    LET header == SIZE_DST_MAC + SIZE_SRC_MAC + SIZE_ETHERTYPE
        payload_size == (IF vlan_id # None THEN SIZE_VLAN_TAG + SIZE_VLAN_ETHERTYPE ELSE 0)
                            + SIZE_WOL_PAYLOAD
        packet_size == header + payload_size
        b0 == vec(0, packet_size)
        b1 == copy_from_slice(b0, 0, vec(255, 6))
        b2 == copy_from_slice(b1, SIZE_DST_MAC, source[1])
        ethertype == IF vlan_id # None THEN EtherTypes_Vlan ELSE EtherTypes_WakeOnLan
        b3 == copy_from_slice(b2, SIZE_DST_MAC + SIZE_SRC_MAC, to_be_bytes(ethertype))
        b4 == IF vlan_id # None
              THEN copy_from_slice(copy_from_slice(b3, header, vlan_to_bytes(vlan_id[1])),
                                   header + SIZE_VLAN_TAG, WOL_ETHERTYPE)
              ELSE b3
        payload_offset == IF vlan_id # None THEN SIZE_VLAN_TAG + SIZE_ETHERTYPE ELSE 0
    IN IF packet_size < header
       THEN [err |-> WOLPacketError("failed to create ethernet packet"), buffer |-> <<>>]
       ELSE IF source = None
       THEN [err |-> NetworkError("failed to get source MAC address of the interface"),
             buffer |-> <<>>]
       ELSE IF payload_size - payload_offset # Len(wol_packet)
       THEN [err |-> Panic("copy_from_slice"), buffer |-> <<>>]
       ELSE [err |-> NoErr,
             buffer |-> copy_from_slice(b4, header + payload_offset, wol_packet)]

\* a mutant of build_wol_packet: the interface is looked up before the MAC
\* is parsed
build_wol_packet_lookup_first(maybe_mac, interface_name, vlan_id) ==
    IF interface_name \notin DOMAIN HostInterfaces
    THEN [err |-> InterfaceNotFound(interface_name), buffer |-> <<>>]
    ELSE IF maybe_mac \notin ValidMACs
    THEN [err |-> InvalidMAC(maybe_mac), buffer |-> <<>>]
    ELSE write_frame(create_wol_payload(octets(maybe_mac)),
                     HostInterfaces[interface_name], vlan_id)

\* Result<(Vec<u8>, NetworkInterface)> as [err, buffer], buffer <<>> on Err:
\* the MAC is parsed first, then the interface is looked up, then the frame
\* is written.
build_wol_packet(maybe_mac, interface_name, vlan_id) ==
    IF maybe_mac \notin ValidMACs
    THEN [err |-> InvalidMAC(maybe_mac), buffer |-> <<>>]
    ELSE IF interface_name \notin DOMAIN HostInterfaces
    THEN [err |-> InterfaceNotFound(interface_name), buffer |-> <<>>]
    ELSE write_frame(create_wol_payload(octets(maybe_mac)),
                     HostInterfaces[interface_name], vlan_id)

\* what the datalink layer answers to channel() and send_to()
TxOutcomes == {"sent", "unhandled_channel", "channel_error", "send_error"}

\* The Result of send_wol_packet, by its error; the frame is on the wire
\* exactly when it is NoErr.
send_wol_packet(maybe_mac, interface_name, vlan_id, tx) ==
    LET e == build_wol_packet(maybe_mac, interface_name, vlan_id).err IN
    IF e # NoErr THEN e
    ELSE IF tx = "sent" THEN NoErr
    ELSE NetworkError(tx)

\* ------------------------------------------------------- main.rs: the table
Free == <<"free", 0>>

MainHolds == <<"main", 0>>

RenderHolds == <<"render", 0>>

CheckHolds(c) == <<"check", c>>

Pending == <<"Pending", "", "">>

ReturnOk == <<"Ok", "", "">>

ReturnErr(e) == <<"Err", e[1], e[2]>>

\* anyhow!("health check for {} timed out", server.name)
HealthCheckTimedOut(name) == <<"HealthCheckTimedOut", name>>

\* wake_order.iter().map(|server| Server { name, status: Waiting, checks: [Waiting..] })
\* (the display string a CheckStatus carries is not modelled)
initial_server_state(order) ==
    [i \in DOMAIN order |->
        [name |-> order[i].name,
         status |-> "Waiting",
         checks |-> [c \in DOMAIN order[i].check |-> "Waiting"]]]

Settled(st) == st \in {"Ok", "TimedOut"}

\* the server main's loop is at, and its checks
CurrentServer == wake_order[server_index]

CurrentChecks == CurrentServer.check

\* a freshly spawned check task: nothing of its body has run
SpawnedTask == [pc |-> "spawned", elapsed |-> 0, sleep_left |-> 0, attempts |-> 0, ret |-> ""]

\* ------------------------------------------------------------ main.rs: main
\* let wake_order = parse_server_dependencies(filename)?; the table is built
\* and the renderer spawned before the wake loop starts.
ParseServerDependencies ==
    /\ mpc = "parse"
    /\ LET r == parse_server_dependencies(servers) IN
       IF r.err # NoErr
       THEN /\ result' = ReturnErr(r.err)
            /\ mpc' = "done"
            /\ UNCHANGED <<wake_order, server_state, rpc, server_index>>
       ELSE /\ wake_order' = r.order
            /\ server_state' = initial_server_state(r.order)
            /\ rpc' = "lock"
            /\ server_index' = 1
            /\ mpc' = "send"
            /\ UNCHANGED result
    /\ UNCHANGED <<response, health, packet_buffer, servers, lock, check_index, tasks, join_index, timeout, phc_ret, sent>>

\* a mutant of SendWolPacket: the `?` is missing, so an Err is dropped and
\* main goes on to mark the server
SendWolPacket_ignore_error ==
    /\ mpc = "send"
    /\ server_index <= Len(wake_order)
    /\ \E tx \in TxOutcomes :
        LET e == send_wol_packet(CurrentServer.mac, CurrentServer.interface,
                                 CurrentServer.vlan, tx) IN
        /\ sent' = IF e # NoErr THEN sent ELSE Append(sent, server_index)
        /\ mpc' = "lock_wol"
    /\ UNCHANGED <<response, health, packet_buffer, servers, wake_order, result, server_state, lock, server_index,
                   check_index, tasks, join_index, timeout, phc_ret, rpc>>

\* wol::send_wol_packet(&server.mac, &server.interface, server.vlan)?;
SendWolPacket ==
    /\ mpc = "send"
    /\ server_index <= Len(wake_order)
    /\ \E tx \in TxOutcomes :
        LET e == send_wol_packet(CurrentServer.mac, CurrentServer.interface,
                                 CurrentServer.vlan, tx) IN
        IF e # NoErr
        THEN /\ result' = ReturnErr(e)
             /\ mpc' = "done"
             /\ UNCHANGED sent
        ELSE /\ sent' = Append(sent, server_index)
             /\ mpc' = "lock_wol"
             /\ UNCHANGED result
    /\ UNCHANGED <<response, health, packet_buffer, servers, wake_order, server_state, lock, server_index, check_index,
                   tasks, join_index, timeout, phc_ret, rpc>>

\* let mut servers = server_state.lock().unwrap();
LockWolSent ==
    /\ mpc = "lock_wol"
    /\ lock = Free
    /\ lock' = MainHolds
    /\ mpc' = "write_wol"
    /\ UNCHANGED <<response, health, packet_buffer, servers, wake_order, result, server_state, server_index, check_index,
                   tasks, join_index, timeout, phc_ret, rpc, sent>>

\* servers[server_index].status = ServerStatus::WOLSent; the guard is dropped
\* and perform_health_checks is entered with an empty tasks vector.
WriteWolSent ==
    /\ mpc = "write_wol"
    /\ server_state' = [server_state EXCEPT ![server_index].status = "WOLSent"]
    /\ lock' = Free
    /\ tasks' = <<>>
    /\ check_index' = 1
    /\ mpc' = "launch"
    /\ UNCHANGED <<response, health, packet_buffer, servers, wake_order, result, server_index, join_index, timeout,
                   phc_ret, rpc, sent>>

\* --------------------------------------------- main.rs: perform_health_checks
\* the launch loop takes the lock for the next check
LockRunning ==
    /\ mpc = "launch"
    /\ check_index <= Len(CurrentChecks)
    /\ lock = Free
    /\ lock' = MainHolds
    /\ mpc' = "write_running"
    /\ UNCHANGED <<response, health, packet_buffer, servers, wake_order, result, server_state, server_index, check_index,
                   tasks, join_index, timeout, phc_ret, rpc, sent>>

\* servers[server_index].checks[check_index] = Running; the guard is dropped
\* and the check's task is spawned
WriteRunning ==
    /\ mpc = "write_running"
    /\ server_state' = [server_state EXCEPT ![server_index].checks[check_index] = "Running"]
    /\ lock' = Free
    /\ tasks' = Append(tasks, SpawnedTask)
    /\ check_index' = check_index + 1
    /\ mpc' = "launch"
    /\ UNCHANGED <<response, health, packet_buffer, servers, wake_order, result, server_index, join_index, timeout,
                   phc_ret, rpc, sent>>

\* the launch loop is over: let mut timeout = false; for task in tasks { .. }
StartJoin ==
    /\ mpc = "launch"
    /\ check_index > Len(CurrentChecks)
    /\ timeout' = FALSE
    /\ join_index' = 1
    /\ mpc' = "join"
    /\ UNCHANGED <<response, health, packet_buffer, servers, wake_order, result, server_state, lock, server_index,
                   check_index, tasks, phc_ret, rpc, sent>>

\* a mutant of JoinTask: the flag is assigned the last outcome instead of
\* being raised once
JoinTask_overwrite ==
    /\ mpc = "join"
    /\ join_index <= Len(tasks)
    /\ tasks[join_index].pc = "done"
    /\ timeout' = (tasks[join_index].ret = "TimedOut")
    /\ join_index' = join_index + 1
    /\ UNCHANGED <<response, health, packet_buffer, servers, wake_order, result, server_state, lock, mpc, server_index,
                   check_index, tasks, phc_ret, rpc, sent>>

\* a mutant of JoinTask: the loop breaks at the first TimedOut, leaving the
\* later tasks unawaited
JoinTask_break ==
    /\ mpc = "join"
    /\ join_index <= Len(tasks)
    /\ tasks[join_index].pc = "done"
    /\ timeout' = (timeout \/ tasks[join_index].ret = "TimedOut")
    /\ join_index' = IF tasks[join_index].ret = "TimedOut"
                     THEN Len(tasks) + 1 ELSE join_index + 1
    /\ UNCHANGED <<response, health, packet_buffer, servers, wake_order, result, server_state, lock, mpc, server_index,
                   check_index, tasks, phc_ret, rpc, sent>>

\* if let CheckStatus::TimedOut(_) = task.await.unwrap() { timeout = true; }
JoinTask ==
    /\ mpc = "join"
    /\ join_index <= Len(tasks)
    /\ tasks[join_index].pc = "done"
    /\ timeout' = (timeout \/ tasks[join_index].ret = "TimedOut")
    /\ join_index' = join_index + 1
    /\ UNCHANGED <<response, health, packet_buffer, servers, wake_order, result, server_state, lock, mpc, server_index,
                   check_index, tasks, phc_ret, rpc, sent>>

\* a mutant of AllJoined: only the first task is awaited
AllJoined_first == join_index > Min(1, Len(tasks))

\* the join loop has awaited every task of the vector
AllJoined == join_index > Len(tasks)

\* the join loop is over: the lock is taken for the aggregate status
LockStatus ==
    /\ mpc = "join"
    /\ AllJoined
    /\ lock = Free
    /\ lock' = MainHolds
    /\ mpc' = "write_status"
    /\ UNCHANGED <<response, health, packet_buffer, servers, wake_order, result, server_state, server_index, check_index,
                   tasks, join_index, timeout, phc_ret, rpc, sent>>

\* a mutant of aggregate: the flag is not looked at
aggregate_always_ok(flag) == "Ok"

\* if timeout { ServerStatus::TimedOut } else { ServerStatus::Ok }
aggregate(flag) == IF flag THEN "TimedOut" ELSE "Ok"

\* servers[server_index].status = aggregate; the guard is dropped and the
\* same value is returned to main; the function's locals are gone
WriteStatus ==
    /\ mpc = "write_status"
    /\ server_state' = [server_state EXCEPT ![server_index].status = aggregate(timeout)]
    /\ lock' = Free
    /\ phc_ret' = aggregate(timeout)
    /\ tasks' = <<>>
    /\ check_index' = 0
    /\ join_index' = 0
    /\ timeout' = FALSE
    /\ mpc' = "decide"
    /\ UNCHANGED <<response, health, packet_buffer, servers, wake_order, result, server_index, rpc, sent>>

\* ------------------------------------------------ main.rs: main, after await
\* a mutant of NextServer: the loop goes on whatever the server's status
NextServer_regardless ==
    /\ mpc = "decide"
    /\ server_index' = server_index + 1
    /\ mpc' = "send"
    /\ UNCHANGED <<response, health, packet_buffer, servers, wake_order, result, server_state, lock, check_index, tasks,
                   join_index, timeout, phc_ret, rpc, sent>>

\* a mutant of NextServer: the loop steps over a server
NextServer_skip ==
    /\ mpc = "decide"
    /\ phc_ret # "TimedOut"
    /\ server_index' = server_index + 2
    /\ mpc' = "send"
    /\ UNCHANGED <<response, health, packet_buffer, servers, wake_order, result, server_state, lock, check_index, tasks,
                   join_index, timeout, phc_ret, rpc, sent>>

\* the if-let did not match: the for loop moves to the next server
NextServer ==
    /\ mpc = "decide"
    /\ phc_ret # "TimedOut"
    /\ server_index' = server_index + 1
    /\ mpc' = "send"
    /\ UNCHANGED <<response, health, packet_buffer, servers, wake_order, result, server_state, lock, check_index, tasks,
                   join_index, timeout, phc_ret, rpc, sent>>

\* if let ServerStatus::TimedOut = ..: render_servers(&server_state.lock().unwrap(), ..)
AbortLock ==
    /\ mpc = "decide"
    /\ phc_ret = "TimedOut"
    /\ lock = Free
    /\ lock' = MainHolds
    /\ mpc' = "abort_render"
    /\ UNCHANGED <<response, health, packet_buffer, servers, wake_order, result, server_state, server_index, check_index,
                   tasks, join_index, timeout, phc_ret, rpc, sent>>

\* the temporary guard is dropped; return Err(anyhow!(".. {} timed out", server.name))
AbortReturn ==
    /\ mpc = "abort_render"
    /\ lock' = Free
    /\ result' = ReturnErr(HealthCheckTimedOut(CurrentServer.name))
    /\ mpc' = "done"
    /\ UNCHANGED <<response, health, packet_buffer, servers, wake_order, server_state, server_index, check_index, tasks,
                   join_index, timeout, phc_ret, rpc, sent>>

\* the for loop is exhausted: render_servers(&server_state.lock().unwrap(), ..)
FinalLock ==
    /\ mpc = "send"
    /\ server_index > Len(wake_order)
    /\ lock = Free
    /\ lock' = MainHolds
    /\ mpc' = "final_render"
    /\ UNCHANGED <<response, health, packet_buffer, servers, wake_order, result, server_state, server_index, check_index,
                   tasks, join_index, timeout, phc_ret, rpc, sent>>

\* return Ok(());
FinalReturn ==
    /\ mpc = "final_render"
    /\ lock' = Free
    /\ result' = ReturnOk
    /\ mpc' = "done"
    /\ UNCHANGED <<response, health, packet_buffer, servers, wake_order, server_state, server_index, check_index, tasks,
                   join_index, timeout, phc_ret, rpc, sent>>

\* ------------------------------------- main.rs: the task spawned per check
\* Time is counted in ticks. A task's elapsed is start_time.elapsed(), kept
\* only up to the check's timeout (the one value it is compared with), and
\* sleep_left is what remains of tokio::time::sleep(check.retry).
TaskOf(c) == tasks[c]

\* let start_time = Instant::now();
TaskBegin(c) ==
    /\ c \in DOMAIN tasks
    /\ TaskOf(c).pc = "spawned"
    /\ tasks' = [tasks EXCEPT ![c].pc = "top", ![c].elapsed = 0]
    /\ UNCHANGED <<response, health, packet_buffer, servers, wake_order, result, server_state, lock, mpc, server_index,
                   check_index, join_index, timeout, phc_ret, rpc, sent>>

\* a mutant of TimeIsUp: > for >=
TimeIsUp_strict(c) == TaskOf(c).elapsed > CurrentChecks[c].timeout

\* if start_time.elapsed() >= check.timeout
TimeIsUp(c) == TaskOf(c).elapsed >= CurrentChecks[c].timeout

\* the timeout test passed: servers::check_health(check.method.clone()) is called
TaskEvaluate(c) ==
    /\ c \in DOMAIN tasks
    /\ TaskOf(c).pc = "top"
    /\ ~TimeIsUp(c)
    /\ tasks' = [tasks EXCEPT ![c].pc = "eval",
                              ![c].attempts = Min(@ + 1, MaxAttempts)]
    /\ UNCHANGED <<response, health, packet_buffer, servers, wake_order, result, server_state, lock, mpc, server_index,
                   check_index, join_index, timeout, phc_ret, rpc, sent>>

\* the timeout test failed: the lock is taken for the TimedOut write
TaskLockTimedOut(c) ==
    /\ c \in DOMAIN tasks
    /\ TaskOf(c).pc = "top"
    /\ TimeIsUp(c)
    /\ lock = Free
    /\ lock' = CheckHolds(c)
    /\ tasks' = [tasks EXCEPT ![c].pc = "write_timedout"]
    /\ UNCHANGED <<response, health, packet_buffer, servers, wake_order, result, server_state, mpc, server_index,
                   check_index, join_index, timeout, phc_ret, rpc, sent>>

\* a mutant of TaskWriteTimedOut: the return is missing, so the loop body
\* goes on to check_health
TaskWriteTimedOut_noreturn(c) ==
    /\ c \in DOMAIN tasks
    /\ TaskOf(c).pc = "write_timedout"
    /\ server_state' = [server_state EXCEPT ![server_index].checks[c] = "TimedOut"]
    /\ lock' = Free
    /\ tasks' = [tasks EXCEPT ![c].pc = "eval",
                              ![c].attempts = Min(@ + 1, MaxAttempts)]
    /\ UNCHANGED <<response, health, packet_buffer, servers, wake_order, result, mpc, server_index, check_index,
                   join_index, timeout, phc_ret, rpc, sent>>

\* servers[server_index].checks[check_index] = TimedOut; return TimedOut
TaskWriteTimedOut(c) ==
    /\ c \in DOMAIN tasks
    /\ TaskOf(c).pc = "write_timedout"
    /\ server_state' = [server_state EXCEPT ![server_index].checks[c] = "TimedOut"]
    /\ lock' = Free
    /\ tasks' = [tasks EXCEPT ![c].pc = "done", ![c].ret = "TimedOut"]
    /\ UNCHANGED <<response, health, packet_buffer, servers, wake_order, result, mpc, server_index, check_index,
                   join_index, timeout, phc_ret, rpc, sent>>

\* check_health returned false: tokio::time::sleep(check.retry).await
TaskEvalFalse(c) ==
    /\ c \in DOMAIN tasks
    /\ TaskOf(c).pc = "eval"
    /\ tasks' = [tasks EXCEPT ![c].pc = "sleep",
                              ![c].sleep_left = CurrentChecks[c].retry]
    /\ UNCHANGED <<response, health, packet_buffer, servers, wake_order, result, server_state, lock, mpc, server_index,
                   check_index, join_index, timeout, phc_ret, rpc, sent>>

\* check_health returned true: break, and the lock is taken for the Ok write
TaskLockOk(c) ==
    /\ c \in DOMAIN tasks
    /\ TaskOf(c).pc = "eval"
    /\ lock = Free
    /\ lock' = CheckHolds(c)
    /\ tasks' = [tasks EXCEPT ![c].pc = "write_ok"]
    /\ UNCHANGED <<response, health, packet_buffer, servers, wake_order, result, server_state, mpc, server_index,
                   check_index, join_index, timeout, phc_ret, rpc, sent>>

\* servers[server_index].checks[check_index] = Ok; return Ok
TaskWriteOk(c) ==
    /\ c \in DOMAIN tasks
    /\ TaskOf(c).pc = "write_ok"
    /\ server_state' = [server_state EXCEPT ![server_index].checks[c] = "Ok"]
    /\ lock' = Free
    /\ tasks' = [tasks EXCEPT ![c].pc = "done", ![c].ret = "Ok"]
    /\ UNCHANGED <<response, health, packet_buffer, servers, wake_order, result, mpc, server_index, check_index,
                   join_index, timeout, phc_ret, rpc, sent>>

\* a mutant of TaskWake: start_time is taken inside the loop, so every
\* iteration measures its own time
TaskWake_restart(c) ==
    /\ c \in DOMAIN tasks
    /\ TaskOf(c).pc = "sleep"
    /\ TaskOf(c).sleep_left = 0
    /\ tasks' = [tasks EXCEPT ![c].pc = "top", ![c].elapsed = 0]
    /\ UNCHANGED <<response, health, packet_buffer, servers, wake_order, result, server_state, lock, mpc, server_index,
                   check_index, join_index, timeout, phc_ret, rpc, sent>>

\* the retry sleep is over: back to the top of the loop
TaskWake(c) ==
    /\ c \in DOMAIN tasks
    /\ TaskOf(c).pc = "sleep"
    /\ TaskOf(c).sleep_left = 0
    /\ tasks' = [tasks EXCEPT ![c].pc = "top"]
    /\ UNCHANGED <<response, health, packet_buffer, servers, wake_order, result, server_state, lock, mpc, server_index,
                   check_index, join_index, timeout, phc_ret, rpc, sent>>

\* a mutant of ticked: a call or a sleep in progress is dropped when the
\* timeout elapses, and the loop is back at its top
ticked_preempt(c) ==
    LET t == TaskOf(c) IN
    IF t.pc \in {"top", "eval", "sleep"}
    THEN [t EXCEPT !.elapsed = Min(@ + 1, CurrentChecks[c].timeout),
                   !.sleep_left = IF @ > 0 THEN @ - 1 ELSE 0,
                   !.pc = IF t.elapsed + 1 >= CurrentChecks[c].timeout THEN "top" ELSE @]
    ELSE t

\* one tick of the clock, seen by every task that has taken its start_time
\* and has not yet decided its outcome
ticked(c) ==
    LET t == TaskOf(c) IN
    IF t.pc \in {"top", "eval", "sleep"}
    THEN [t EXCEPT !.elapsed = Min(@ + 1, CurrentChecks[c].timeout),
                   !.sleep_left = IF @ > 0 THEN @ - 1 ELSE 0]
    ELSE t

Tick ==
    /\ mpc \in {"launch", "write_running", "join"}
    /\ tasks' = [c \in DOMAIN tasks |-> ticked(c)]
    /\ tasks' # tasks
    /\ UNCHANGED <<response, health, packet_buffer, servers, wake_order, result, server_state, lock, mpc, server_index,
                   check_index, join_index, timeout, phc_ret, rpc, sent>>

\* ------------------------------------------ main.rs: update_server_status
\* The renderer lives until main returns and the runtime is dropped. Its
\* 200 ms sleep is not measured in ticks: it ends at any time.
RenderLock ==
    /\ mpc # "done"
    /\ rpc = "lock"
    /\ lock = Free
    /\ lock' = RenderHolds
    /\ rpc' = "render"
    /\ UNCHANGED <<response, health, packet_buffer, servers, wake_order, result, server_state, mpc, server_index,
                   check_index, tasks, join_index, timeout, phc_ret, sent>>

\* a mutant of RenderUnlock: the sleep is inside the block, so the guard
\* lives across it
RenderUnlock_hold ==
    /\ mpc # "done"
    /\ rpc = "render"
    /\ rpc' = "sleep"
    /\ UNCHANGED <<response, health, packet_buffer, servers, wake_order, result, server_state, lock, mpc, server_index,
                   check_index, tasks, join_index, timeout, phc_ret, sent>>

\* render_servers(&servers, ..) ran; the guard is dropped at the end of the block
RenderUnlock ==
    /\ mpc # "done"
    /\ rpc = "render"
    /\ lock' = Free
    /\ rpc' = "sleep"
    /\ UNCHANGED <<response, health, packet_buffer, servers, wake_order, result, server_state, mpc, server_index,
                   check_index, tasks, join_index, timeout, phc_ret, sent>>

\* sleep(Duration::from_millis(200)).await is over
RenderWake ==
    /\ mpc # "done"
    /\ rpc = "sleep"
    /\ rpc' = "lock"
    /\ UNCHANGED <<response, health, packet_buffer, servers, wake_order, result, server_state, lock, mpc, server_index,
                   check_index, tasks, join_index, timeout, phc_ret, sent>>

\* ------------------------------------------------------------ configurations
ServerNames == <<"server1", "server2", "server3", "server4", "server5">>

\* a depends entry that names no server
Ghost == "ghost"

PortCheck(ip) == [type |-> "port", ip |-> ip, status |-> None, regex |-> None]

HttpCheck(status, regex) == [type |-> "http", ip |-> "", status |-> status, regex |-> regex]

ShellCheck(status, regex) == [type |-> "shell", ip |-> "", status |-> status, regex |-> regex]

\* the checks of an orchestrated run: a method that passes validation, under
\* every timeout and retry interval, and one malformed definition
CheckSpecs ==
    [timeout : 0..MaxTimeout, retry : 1..MaxRetry, method : {PortCheck("192.168.1.1")}]
        \cup {[timeout |-> 0, retry |-> 1, method |-> HttpCheck(None, None)]}

\* (mac, interface): fine, unparseable MAC, no such interface, no hardware address
WolChoices == {<<"00:11:22:33:44:55", "eth0">>, <<"not-a-mac", "eth0">>,
               <<"00:11:22:33:44:55", "eth9">>, <<"00:11:22:33:44:55", "tun0">>}

NamesUpTo(n) == {ServerNames[i] : i \in 1..n}

RECURSIVE TotalChecks(_, _)
TotalChecks(svs, i) == IF i > Len(svs) THEN 0 ELSE Len(svs[i].check) + TotalChecks(svs, i + 1)

\* the configurations of an orchestrated run: up to MaxServers servers, each
\* depending on at most one name, with up to MaxChecks checks in the file;
\* nothing makes the names of a file distinct
RunConfigs ==
    UNION {
        {svs \in [1..n -> [name : NamesUpTo(n),
                           mac : {w[1] : w \in WolChoices},
                           interface : {w[2] : w \in WolChoices},
                           vlan : {None},
                           depends : SeqsUpTo(NamesUpTo(n) \cup {Ghost}, 1),
                           check : SeqsUpTo(CheckSpecs, MaxChecks)]] :
            /\ \A i \in 1..n : <<svs[i].mac, svs[i].interface>> \in WolChoices
            /\ TotalChecks(svs, 1) <= MaxChecks}
        : n \in 0..MaxServers}

Init ==
    /\ servers \in RunConfigs
    /\ wake_order = <<>>
    /\ result = Pending
    /\ server_state = <<>>
    /\ lock = Free
    /\ mpc = "parse"
    /\ server_index = 0
    /\ check_index = 0
    /\ tasks = <<>>
    /\ join_index = 0
    /\ timeout = FALSE
    /\ phc_ret = ""
    /\ rpc = "off"
    /\ sent = <<>>
    /\ packet_buffer = <<>>
    /\ response = <<>>
    /\ health = <<>>

Next ==
    \/ ParseServerDependencies
    \/ SendWolPacket
    \/ LockWolSent
    \/ WriteWolSent
    \/ LockRunning
    \/ WriteRunning
    \/ StartJoin
    \/ JoinTask
    \/ LockStatus
    \/ WriteStatus
    \/ NextServer
    \/ AbortLock
    \/ AbortReturn
    \/ FinalLock
    \/ FinalReturn
    \/ \E c \in 1..MaxChecks : TaskBegin(c)
    \/ \E c \in 1..MaxChecks : TaskEvaluate(c)
    \/ \E c \in 1..MaxChecks : TaskLockTimedOut(c)
    \/ \E c \in 1..MaxChecks : TaskWriteTimedOut(c)
    \/ \E c \in 1..MaxChecks : TaskEvalFalse(c)
    \/ \E c \in 1..MaxChecks : TaskLockOk(c)
    \/ \E c \in 1..MaxChecks : TaskWriteOk(c)
    \/ \E c \in 1..MaxChecks : TaskWake(c)
    \/ Tick
    \/ RenderLock
    \/ RenderUnlock
    \/ RenderWake

Spec == Init /\ [][Next]_vars

\* ------------------------------------------------- the resolver on its own
\* the inputs of determine_wakeup_order: up to MaxGraph servers, each with up
\* to MaxDepends depends entries; server i carries vlan i, so that two
\* servers of one name can be told apart
GraphInputs ==
    UNION {
        {svs \in [1..n -> [name : NamesUpTo(n),
                           mac : {"00:11:22:33:44:55"},
                           interface : {"eth0"},
                           vlan : {Some(i) : i \in 1..n},
                           depends : SeqsUpTo(NamesUpTo(n) \cup {Ghost}, MaxDepends),
                           check : {<<>>}]] :
            \A i \in 1..n : svs[i].vlan = Some(i)}
        : n \in 0..MaxGraph}

\* and the inputs of MaxChain servers with distinct names, each depending on
\* at most one name
ChainInputs ==
    {[i \in 1..MaxChain |->
        [name |-> ServerNames[i],
         mac |-> "00:11:22:33:44:55",
         interface |-> "eth0",
         vlan |-> Some(i),
         depends |-> d[i],
         check |-> <<>>]] :
        d \in [1..MaxChain -> SeqsUpTo(NamesUpTo(MaxChain) \cup {Ghost}, 1)]}

ResolverInit ==
    /\ servers \in GraphInputs \cup ChainInputs
    /\ wake_order = <<>>
    /\ result = Pending
    /\ server_state = <<>>
    /\ lock = Free
    /\ mpc = "resolve"
    /\ server_index = 0
    /\ check_index = 0
    /\ tasks = <<>>
    /\ join_index = 0
    /\ timeout = FALSE
    /\ phc_ret = ""
    /\ rpc = "off"
    /\ sent = <<>>
    /\ packet_buffer = <<>>
    /\ response = <<>>
    /\ health = <<>>

\* let sorted = determine_wakeup_order(&servers)
DetermineWakeupOrder ==
    /\ mpc = "resolve"
    /\ LET r == determine_wakeup_order(servers) IN
       /\ result' = IF r.err # NoErr THEN ReturnErr(r.err) ELSE ReturnOk
       /\ wake_order' = r.order
    /\ mpc' = "resolved"
    /\ UNCHANGED <<response, health, packet_buffer, servers, server_state, lock, server_index, check_index, tasks,
                   join_index, timeout, phc_ret, rpc, sent>>

ResolverNext == DetermineWakeupOrder

ResolverSpec == ResolverInit /\ [][ResolverNext]_vars

\* ------------------------------------------------ validation on its own
\* the definitions a file can give: Http and Shell with and without a status
\* and a regex, Port with addresses that parse (IPv4, IPv6) and that do not
CheckMethods ==
    {HttpCheck(st, re) : st \in {None, Some(200)}, re \in {None, Some("ok")}}
        \cup {ShellCheck(st, re) : st \in {None, Some(0)}, re \in {None, Some("ok")}}
        \cup {PortCheck(ip) : ip \in {"192.168.1.1", "::1", "not-an-ip", "192.168.1.256"}}

\* one server with up to MaxMethods checks
ValidateInputs ==
    {<<[name |-> "server1",
        mac |-> "00:11:22:33:44:55",
        interface |-> "eth0",
        vlan |-> None,
        depends |-> <<>>,
        check |-> [k \in DOMAIN ms |-> [timeout |-> 1, retry |-> 1, method |-> ms[k]]]]>> :
        ms \in SeqsUpTo(CheckMethods, MaxMethods)}

ValidateInit ==
    /\ servers \in ValidateInputs
    /\ wake_order = <<>>
    /\ result = Pending
    /\ server_state = <<>>
    /\ lock = Free
    /\ mpc = "validate"
    /\ server_index = 0
    /\ check_index = 0
    /\ tasks = <<>>
    /\ join_index = 0
    /\ timeout = FALSE
    /\ phc_ret = ""
    /\ rpc = "off"
    /\ sent = <<>>
    /\ packet_buffer = <<>>
    /\ response = <<>>
    /\ health = <<>>

\* for server in &servers { for healthcheck in &server.check { validate_health_check(healthcheck)?; } }
ValidateHealthChecks ==
    /\ mpc = "validate"
    /\ LET e == validate_servers(servers, 1) IN
       result' = IF e # NoErr THEN ReturnErr(e) ELSE ReturnOk
    /\ mpc' = "validated"
    /\ UNCHANGED <<response, health, packet_buffer, servers, wake_order, server_state, lock, server_index, check_index,
                   tasks, join_index, timeout, phc_ret, rpc, sent>>

ValidateNext == ValidateHealthChecks

ValidateSpec == ValidateInit /\ [][ValidateNext]_vars

\* ------------------------------------------------ the frame on its own
\* (mac, interface, vlan): parsing and unparseable addresses, interfaces with
\* and without a hardware address and one the host does not have, no tag and
\* tags around the 12-bit limit; and every u16 tag for one address
WolInputs ==
    {<<m, i, v>> : m \in ValidMACs \cup {"not-a-mac"},
                   i \in {"eth0", "tun0", "eth9"},
                   v \in {None, Some(257), Some(4095), Some(4096)}}
        \cup {<<"01:23:45:67:89:AB", "eth0", Some(v)>> : v \in 0..U16_MAX}

WolInit ==
    /\ \E w \in WolInputs :
          servers = <<[name |-> "server1", mac |-> w[1], interface |-> w[2],
                       vlan |-> w[3], depends |-> <<>>, check |-> <<>>]>>
    /\ wake_order = <<>>
    /\ result = Pending
    /\ server_state = <<>>
    /\ lock = Free
    /\ mpc = "build"
    /\ server_index = 0
    /\ check_index = 0
    /\ tasks = <<>>
    /\ join_index = 0
    /\ timeout = FALSE
    /\ phc_ret = ""
    /\ rpc = "off"
    /\ sent = <<>>
    /\ packet_buffer = <<>>
    /\ response = <<>>
    /\ health = <<>>

\* let (packet_buffer, interface) = build_wol_packet(maybe_mac, interface_name, vlan_id)?;
BuildWolPacket ==
    /\ mpc = "build"
    /\ LET r == build_wol_packet(servers[1].mac, servers[1].interface, servers[1].vlan) IN
       /\ packet_buffer' = r.buffer
       /\ result' = IF r.err # NoErr THEN ReturnErr(r.err) ELSE result
       /\ mpc' = IF r.err # NoErr THEN "build_failed" ELSE "built"
    /\ UNCHANGED <<response, health, servers, wake_order, server_state, lock, server_index, check_index,
                   tasks, join_index, timeout, phc_ret, rpc, sent>>

\* datalink::channel(..) and tx.send_to(packet.packet(), None): the rest of
\* send_wol_packet
TransmitWolPacket ==
    /\ mpc = "built"
    /\ \E tx \in TxOutcomes :
        IF tx = "sent"
        THEN /\ sent' = Append(sent, 1)
             /\ result' = ReturnOk
        ELSE /\ result' = ReturnErr(NetworkError(tx))
             /\ UNCHANGED sent
    /\ mpc' = "transmitted"
    /\ UNCHANGED <<response, health, servers, wake_order, server_state, lock, server_index, check_index,
                   tasks, join_index, timeout, phc_ret, rpc, packet_buffer>>

WolNext ==
    \/ BuildWolPacket
    \/ TransmitWolPacket

WolSpec == WolInit /\ [][WolNext]_vars

\* ------------------------------------------------ one evaluation on its own
\* the checks evaluated: Http and Shell with and without a status and a
\* regex, and a Port check
EvalMethods ==
    {HttpCheck(st, re) : st \in {None, Some(200), Some(204)},
                         re \in {None, Some("ok"), Some("up")}}
        \cup {ShellCheck(st, re) : st \in {None, Some(0), Some(2)},
                                   re \in {None, Some("ok"), Some("up")}}
        \cup {PortCheck("192.168.1.1")}

\* what the world answers to a check of each type
Responses(type) ==
    IF type = "http"
    THEN [completed : {TRUE}, status : {Some(200), Some(204), Some(503)},
          body : {None, Some("status: ok"), Some("ok, up"), Some("starting")}]
            \cup {[completed |-> FALSE, status |-> None, body |-> None]}
    ELSE IF type = "shell"
    THEN [completed : {TRUE}, status : {None, Some(0), Some(1), Some(2)},
          body : {Some("status: ok"), Some("ok, up"), Some("starting")}]
            \cup {[completed |-> FALSE, status |-> None, body |-> None]}
    ELSE [completed : BOOLEAN, status : {None}, body : {None}]

EvalInit ==
    /\ \E m \in EvalMethods :
          servers = <<[name |-> "server1", mac |-> "00:11:22:33:44:55",
                       interface |-> "eth0", vlan |-> None, depends |-> <<>>,
                       check |-> <<[timeout |-> 1, retry |-> 1, method |-> m]>>]>>
    /\ wake_order = <<>>
    /\ result = Pending
    /\ server_state = <<>>
    /\ lock = Free
    /\ mpc = "evaluate"
    /\ server_index = 0
    /\ check_index = 0
    /\ tasks = <<>>
    /\ join_index = 0
    /\ timeout = FALSE
    /\ phc_ret = ""
    /\ rpc = "off"
    /\ sent = <<>>
    /\ packet_buffer = <<>>
    /\ response = <<>>
    /\ health = <<>>

\* let result = servers::check_health(check.method.clone()).await;
CheckHealth ==
    /\ mpc = "evaluate"
    /\ \E rsp \in Responses(servers[1].check[1].method.type) :
        /\ response' = rsp
        /\ health' = check_health(servers[1].check[1].method, rsp)
    /\ mpc' = "evaluated"
    /\ UNCHANGED <<servers, wake_order, result, server_state, lock, server_index,
                   check_index, tasks, join_index, timeout, phc_ret, rpc, sent,
                   packet_buffer>>

EvalNext == CheckHealth

EvalSpec == EvalInit /\ [][EvalNext]_vars

\* ==================================================================== claims
Resolved == mpc = "resolved"

ResolvedOk == Resolved /\ result = ReturnOk

UniqueNames(svs) == \A i, j \in DOMAIN svs : svs[i].name = svs[j].name => i = j

AllDefined(svs) ==
    \A i \in DOMAIN svs : \A d \in Range(svs[i].depends) : \E j \in DOMAIN svs : svs[j].name = d

\* D precedes S in order, both by name
Precedes(order, d, s) ==
    /\ IndexOf(order, d) > 0
    /\ IndexOf(order, s) > 0
    /\ IndexOf(order, d) < IndexOf(order, s)

DependenciesFirst(svs, order) ==
    \A i \in DOMAIN svs : \A d \in Range(svs[i].depends) : Precedes(order, d, svs[i].name)

\* C1: whenever determine_wakeup_order succeeds, every name in S.depends
\* appears strictly before S in the returned order, for every input server S.
C1_DependenciesFirst == ResolvedOk => DependenciesFirst(servers, wake_order)

\* C1 restricted to inputs whose names are distinct
C1_DependenciesFirstUnique ==
    (ResolvedOk /\ UniqueNames(servers)) => DependenciesFirst(servers, wake_order)

\* the fan-in input of test_determine_wakeup_order, resolved
C1_Witness ==
    /\ ResolvedOk
    /\ Len(servers) = 3
    /\ UniqueNames(servers)
    /\ servers[1].depends = <<servers[2].name, servers[3].name>>
    /\ servers[2].depends = <<servers[3].name>>
    /\ servers[3].depends = <<>>
    /\ [k \in DOMAIN wake_order |-> wake_order[k].name]
         = <<servers[3].name, servers[2].name, servers[1].name>>

\* the depends relation over names: n -> d when a server called n lists d
DependsOn(svs) ==
    UNION {{<<svs[i].name, d>> : d \in Range(svs[i].depends)} : i \in DOMAIN svs}

\* the names reachable from n in at least one step of R, by a search of depth k
RECURSIVE ReachIn(_, _, _)
ReachIn(R, front, k) ==
    LET next == front \cup {e[2] : e \in {x \in R : x[1] \in front}} IN
    IF k = 0 \/ next = front THEN front ELSE ReachIn(R, next, k - 1)

HasCycle(svs) ==
    LET R == DependsOn(svs) IN
    \E e \in R : e[1] \in ReachIn(R, {e[2]}, Cardinality(R))

IsCircular(r) == r[1] = "Err" /\ r[2] = "CircularDependency"

\* C10: with every depends entry defined, CircularDependency is returned
\* exactly when the depends graph has a cycle (a self-loop included), and Ok
\* is returned for every acyclic input.
C10_CycleIffError ==
    (Resolved /\ AllDefined(servers)) =>
        /\ IsCircular(result) <=> HasCycle(servers)
        /\ ~HasCycle(servers) => result = ReturnOk

\* C10 restricted to inputs whose names are distinct
C10_CycleIffErrorUnique ==
    (Resolved /\ AllDefined(servers) /\ UniqueNames(servers)) =>
        /\ IsCircular(result) <=> HasCycle(servers)
        /\ ~HasCycle(servers) => result = ReturnOk

\* n lies on a cycle of the depends relation
OnCycle(svs, n) ==
    LET R == DependsOn(svs) IN
    \E e \in R : e[1] = n /\ n \in ReachIn(R, {e[2]}, Cardinality(R))

\* the servers have distinct names and each depends on the next one of the
\* file, the last on the first
IsRing(svs) ==
    /\ Len(svs) >= 1
    /\ UniqueNames(svs)
    /\ \A i \in DOMAIN svs :
          svs[i].depends = <<svs[IF i = Len(svs) THEN 1 ELSE i + 1].name>>

\* C11: the name carried by CircularDependency lies on a cycle of the depends
\* relation, and for a ring server1 -> server2 -> .. -> server1 listed in
\* that order it is the first server's name, the one in progress that the
\* traversal comes back to.
C11_CycleName ==
    Resolved =>
        /\ IsCircular(result) => OnCycle(servers, result[3])
        /\ IsRing(servers) => result = ReturnErr(CircularDependency(servers[1].name))

\* the ring of test_circular_dependencies, resolved
C11_Witness ==
    /\ Resolved
    /\ Len(servers) = 4
    /\ IsRing(servers)
    /\ result = ReturnErr(CircularDependency("server1"))

\* a cycle reported under a name that is not the first server's
C11_WitnessNotFirst ==
    /\ Resolved
    /\ IsCircular(result)
    /\ UniqueNames(servers)
    /\ result[3] # servers[1].name

IsUndefined(r) == r[1] = "Err" /\ r[2] = "UndefinedDependency"

Names(svs) == {svs[i].name : i \in DOMAIN svs}

\* C12: an UndefinedDependency error carries a name that some server lists in
\* depends and that no server of the input has, and comes with no wake
\* order; when the first entry the traversal looks up (the first server's
\* first depends entry) names no server, the error carries that entry.
C12_UndefinedName ==
    Resolved =>
        /\ IsUndefined(result) =>
              /\ result[3] \notin Names(servers)
              /\ \E i \in DOMAIN servers : result[3] \in Range(servers[i].depends)
              /\ wake_order = <<>>
        /\ (/\ Len(servers) >= 1
            /\ servers[1].depends # <<>>
            /\ servers[1].depends[1] \notin Names(servers))
              => result = ReturnErr(UndefinedDependency(servers[1].depends[1]))

\* with distinct names and no cycle, an entry that names no server is always
\* encountered
C12_UndefinedFoundUnique ==
    (Resolved /\ UniqueNames(servers) /\ ~AllDefined(servers) /\ ~HasCycle(servers))
        => IsUndefined(result)

\* the missing name is met below the first server: its first entry is
\* defined, and the traversal fails further on
C12_Witness ==
    /\ Resolved
    /\ result = ReturnErr(UndefinedDependency(Ghost))
    /\ Len(servers) >= 2
    /\ servers[1].depends # <<>>
    /\ servers[1].depends[1] \in Names(servers)
    /\ wake_order = <<>>

\* The post-order of a depth-first traversal, written over positions of the
\* input: acc is the sequence of positions emitted so far, path the positions
\* being traversed; a name stands for the first server called so.
RECURSIVE PostVisit(_, _, _, _)
RECURSIVE PostDepends(_, _, _, _, _)
PostDepends(svs, i, k, path, acc) ==
    IF k > Len(svs[i].depends) THEN acc
    ELSE LET j == IndexOf(svs, svs[i].depends[k]) IN
         PostDepends(svs, i, k + 1, path,
                     IF j = 0 THEN acc ELSE PostVisit(svs, j, path, acc))

PostVisit(svs, i, path, acc) ==
    IF i \in Range(acc) \/ i \in path THEN acc
    ELSE Append(PostDepends(svs, i, 1, path \cup {i}, acc), i)

RECURSIVE PostRoots(_, _, _)
PostRoots(svs, i, acc) ==
    IF i > Len(svs) THEN acc ELSE PostRoots(svs, i + 1, PostVisit(svs, i, {}, acc))

PostOrder(svs) ==
    LET acc == PostRoots(svs, 1, <<>>) IN [k \in DOMAIN acc |-> svs[acc[k]]]

NoDepends(svs) == \A i \in DOMAIN svs : svs[i].depends = <<>>

\* server_a -> {server_b, server_c}, server_b -> server_c
IsFanIn(svs) ==
    /\ Len(svs) = 3
    /\ UniqueNames(svs)
    /\ svs[1].depends = <<svs[2].name, svs[3].name>>
    /\ svs[2].depends = <<svs[3].name>>
    /\ svs[3].depends = <<>>

\* C13: on success the wake order is the post-order of the depth-first
\* traversal from the servers in input order along depends in listed order;
\* the fan-in input comes out as [server_c, server_b, server_a], and an input
\* without dependencies comes out as it went in.
C13_PostOrder ==
    ResolvedOk =>
        /\ wake_order = PostOrder(servers)
        /\ IsFanIn(servers) => wake_order = <<servers[3], servers[2], servers[1]>>
        /\ NoDepends(servers) => wake_order = servers

\* C13 restricted to inputs whose names are distinct
C13_PostOrderUnique ==
    UniqueNames(servers) => C13_PostOrder

\* a resolved input in which a dependency is reached twice and emitted once
C13_WitnessUnique ==
    /\ ResolvedOk
    /\ IsFanIn(servers)
    /\ wake_order = PostOrder(servers)

\* a server called x depends on y, directly or through other servers
DependsTransitively(svs, x, y) ==
    LET R == DependsOn(svs) IN
    \E e \in R : e[1] = x /\ y \in ReachIn(R, {e[2]}, Cardinality(R))

\* C14 as stated, on inputs with distinct names: of two servers neither of
\* which depends on the other, the one listed first comes out first.
C14_TiesByInputOrder ==
    (ResolvedOk /\ UniqueNames(servers)) =>
        \A i, j \in DOMAIN servers :
            (/\ i < j
             /\ ~DependsTransitively(servers, servers[i].name, servers[j].name)
             /\ ~DependsTransitively(servers, servers[j].name, servers[i].name))
                => Precedes(wake_order, servers[i].name, servers[j].name)

\* the position of the first server called name in the input
FirstListed(name) == IndexOf(servers, name)

\* C14, amended: when X is listed before Y, and Y is a dependency (direct or
\* transitive) neither of X nor of any server listed before X, X comes out
\* before Y. A server that an earlier one depends on is emitted with it,
\* ahead of unrelated servers listed in between.
C14_TiesAmended ==
    ResolvedOk =>
        \A x, y \in Names(servers) :
            (/\ FirstListed(x) < FirstListed(y)
             /\ \A z \in Names(servers) :
                   FirstListed(z) <= FirstListed(x) => ~DependsTransitively(servers, z, y))
                => Precedes(wake_order, x, y)

\* server1 -> server3, server2, server3 comes out as server3, server1,
\* server2: server3 is emitted ahead of the unrelated server2 listed before
\* it, and server1 stays ahead of server2
C14_Witness ==
    /\ ResolvedOk
    /\ Len(servers) = 3
    /\ UniqueNames(servers)
    /\ servers[1].depends = <<servers[3].name>>
    /\ servers[2].depends = <<>>
    /\ servers[3].depends = <<>>
    /\ wake_order = <<servers[3], servers[1], servers[2]>>

\* ------------------------------------------------- the orchestrated run
Status(i) == server_state[i].status

Checks(i) == server_state[i].checks

ChecksSettled(i) == \A c \in DOMAIN Checks(i) : Settled(Checks(i)[c])

AllWaiting(i) ==
    /\ Status(i) = "Waiting"
    /\ \A c \in DOMAIN Checks(i) : Checks(i)[c] = "Waiting"

Transmitted(i) == i \in Range(sent)

\* the frame of the server at i+1 is on the wire only once server i is Ok
\* with every check settled
C2_Sequential ==
    \A i \in DOMAIN server_state :
        (i + 1 \in DOMAIN server_state /\ Transmitted(i + 1)) =>
            (ChecksSettled(i) /\ Status(i) = "Ok")

\* every check of the configured server A has settled: A is in the table and
\* none of its checks is Waiting or Running
ChecksOfSettled(A) ==
    \/ A.check = <<>>
    \/ \E k \in DOMAIN wake_order : wake_order[k] = A /\ ChecksSettled(k)

\* the frame of B is on the wire only once every check of each configured
\* server A that B depends on has settled
C2_DependentsWait ==
    \A j \in DOMAIN wake_order :
        Transmitted(j) =>
            \A i \in DOMAIN servers :
                servers[i].name \in Range(wake_order[j].depends) =>
                    ChecksOfSettled(servers[i])

\* C2: the frame of the server at position i+1 is never transmitted before
\* every check of the server at i has settled and server i is marked Ok; so
\* for B depending on A, B's frame never precedes the settling of A's checks.
C2_SequentialWake == C2_Sequential /\ C2_DependentsWait

\* C2 for the configurations whose names are distinct
C2_SequentialWakeUnique == UniqueNames(servers) => C2_SequentialWake

\* B, which depends on A, is transmitted after A's check settled
C2_WitnessUnique ==
    /\ UniqueNames(servers)
    /\ Len(wake_order) = 2
    /\ wake_order[2].depends = <<wake_order[1].name>>
    /\ Len(Checks(1)) = 1
    /\ Transmitted(2)

\* C3: a server's aggregate status is Ok or TimedOut only when every one of
\* its checks has settled (none Waiting or Running).
C3_FanInWait ==
    \A i \in DOMAIN server_state :
        Status(i) \in {"Ok", "TimedOut"} => ChecksSettled(i)

\* one check is Ok and its sibling is still running: the aggregate status
\* is yet unwritten
C3_WitnessEarly ==
    /\ mpc = "join"
    /\ Len(tasks) = 2
    /\ Checks(server_index)[1] = "Ok"
    /\ Checks(server_index)[2] = "Running"
    /\ Status(server_index) = "WOLSent"

\* the fan-in of the spec's scenario is over: one check Ok, its sibling
\* TimedOut, the server TimedOut
C3_Witness ==
    \E i \in DOMAIN server_state :
        /\ Status(i) = "TimedOut"
        /\ Len(Checks(i)) = 2
        /\ Checks(i)[1] = "Ok"
        /\ Checks(i)[2] = "TimedOut"

\* C4: once all checks of a server have settled, the server is marked, and
\* perform_health_checks returns, Ok if and only if none of its checks ended
\* TimedOut, and TimedOut otherwise.
C4_Aggregate ==
    /\ \A i \in DOMAIN server_state :
        /\ Status(i) = "Ok" => \A c \in DOMAIN Checks(i) : Checks(i)[c] = "Ok"
        /\ Status(i) = "TimedOut" =>
              /\ ChecksSettled(i)
              /\ \E c \in DOMAIN Checks(i) : Checks(i)[c] = "TimedOut"
    /\ mpc \in {"decide", "abort_render"} => phc_ret = Status(server_index)

\* the first check timed out and the second succeeded: marked TimedOut and
\* returned TimedOut
C4_Witness ==
    /\ mpc = "decide"
    /\ phc_ret = "TimedOut"
    /\ Len(Checks(server_index)) = 2
    /\ Checks(server_index)[1] = "TimedOut"
    /\ Checks(server_index)[2] = "Ok"

IsTimedOutError(r, name) == r = ReturnErr(HealthCheckTimedOut(name))

\* C5: if a server's aggregate status is TimedOut the run aborts: main is on
\* its way out, no frame is transmitted for a later server, the later
\* servers and their checks stay Waiting, and the run returns the error that
\* names the timed-out server.
C5_AbortOnTimeout ==
    \A i \in DOMAIN server_state :
        Status(i) = "TimedOut" =>
            /\ server_index = i
            /\ mpc \in {"decide", "abort_render", "done"}
            /\ \A j \in DOMAIN server_state : j > i => (~Transmitted(j) /\ AllWaiting(j))
            /\ mpc = "done" => IsTimedOutError(result, server_state[i].name)
            /\ mpc # "done" => result = Pending

\* the first of two servers timed out and the run has returned
C5_Witness ==
    /\ mpc = "done"
    /\ Len(server_state) = 2
    /\ Status(1) = "TimedOut"
    /\ AllWaiting(2)
    /\ IsTimedOutError(result, server_state[1].name)

WolErrors == {"InvalidMAC", "InterfaceNotFound", "NetworkError"}

IsWolError(r) == r[1] = "Err" /\ r[2] \in WolErrors

\* the frame of the server at i can be built on this host
Buildable(i) ==
    /\ wake_order[i].mac \in ValidMACs
    /\ wake_order[i].interface \in DOMAIN HostInterfaces
    /\ HostInterfaces[wake_order[i].interface] # None

\* C6: if building or transmitting the frame of a server fails, the run
\* returns that error at once: the failing server stays Waiting and is never
\* WOLSent, none of its checks leaves Waiting, and no later server is
\* transmitted to or changed.
C6_SendFailure ==
    /\ \A i \in DOMAIN server_state :
        /\ Status(i) # "Waiting" => (Transmitted(i) /\ Buildable(i))
        /\ Transmitted(i) => Buildable(i)
        /\ (\E c \in DOMAIN Checks(i) : Checks(i)[c] # "Waiting") => Transmitted(i)
        /\ (mpc \notin {"parse", "done"} /\ ~Buildable(i)) => server_index <= i
    /\ IsWolError(result) =>
        /\ mpc = "done"
        /\ server_index \in DOMAIN server_state
        /\ \A j \in DOMAIN server_state :
              j >= server_index => (~Transmitted(j) /\ AllWaiting(j))
        /\ result[2] = "InvalidMAC" <=> wake_order[server_index].mac \notin ValidMACs

\* the second server's frame could not be built: the run returned the error
\* with the first server Ok and the second untouched
C6_Witness ==
    /\ IsWolError(result)
    /\ server_index = 2
    /\ ~Buildable(2)
    /\ Status(1) = "Ok"
    /\ Len(Checks(2)) > 0
    /\ AllWaiting(2)

\* a transmit error on a frame that was built
C6_WitnessTransmit ==
    /\ IsWolError(result)
    /\ Buildable(server_index)
    /\ AllWaiting(server_index)

\* main is inside perform_health_checks, before its fan-in is over
InFanOut == mpc \in {"launch", "write_running", "join"}

\* the edges of a check task's own body
TaskEdges ==
    {<<"spawned", "top">>, <<"top", "eval">>, <<"top", "write_timedout">>,
     <<"eval", "sleep">>, <<"eval", "write_ok">>, <<"sleep", "top">>,
     <<"write_timedout", "done">>, <<"write_ok", "done">>}

\* C7: no check is cancelled because a sibling settled: a launched check
\* stays in its own loop, step by step, until it has itself written Ok or
\* TimedOut, and main does not leave the fan-in while a task is unfinished.
C7_NoCancel ==
    /\ [](\A c \in DOMAIN tasks :
            /\ tasks[c].pc # "done" => (InFanOut /\ Checks(server_index)[c] = "Running")
            /\ tasks[c].pc = "done" => Checks(server_index)[c] = tasks[c].ret)
    /\ [][\A c \in DOMAIN tasks :
            tasks[c].pc # "done" =>
                /\ c \in DOMAIN tasks'
                /\ \/ tasks'[c].pc = tasks[c].pc
                   \/ <<tasks[c].pc, tasks'[c].pc>> \in TaskEdges]_vars

\* a check timed out and its sibling, which has made an attempt, is back at
\* the top of its loop
C7_Witness ==
    /\ Len(tasks) = 2
    /\ tasks[1].pc = "done"
    /\ tasks[1].ret = "TimedOut"
    /\ tasks[2].pc = "top"
    /\ tasks[2].attempts >= 1

CheckEdges == {<<"Waiting", "Running">>, <<"Running", "Ok">>, <<"Running", "TimedOut">>}

\* C8: every check starts Waiting, moves only Waiting -> Running,
\* Running -> Ok and Running -> TimedOut, and once Ok or TimedOut its slot is
\* never written and its task never runs again.
C8_StateMachine ==
    /\ [][server_state' # server_state =>
            IF server_state = <<>>
            THEN \A i \in DOMAIN server_state' :
                    \A c \in DOMAIN server_state'[i].checks :
                        server_state'[i].checks[c] = "Waiting"
            ELSE /\ DOMAIN server_state' = DOMAIN server_state
                 /\ \A i \in DOMAIN server_state :
                      /\ DOMAIN server_state'[i].checks = DOMAIN Checks(i)
                      /\ \A c \in DOMAIN Checks(i) :
                            \/ server_state'[i].checks[c] = Checks(i)[c]
                            \/ <<Checks(i)[c], server_state'[i].checks[c]>> \in CheckEdges]_vars
    /\ [](\A c \in DOMAIN tasks :
            Settled(Checks(server_index)[c]) => tasks[c].pc = "done")
    /\ [][\A c \in DOMAIN tasks :
            tasks[c].pc = "done" => (c \notin DOMAIN tasks' \/ tasks'[c] = tasks[c])]_vars

\* both outcomes side by side, each task at rest
C8_Witness ==
    /\ Len(tasks) = 2
    /\ Checks(server_index) = <<"Ok", "TimedOut">>
    /\ tasks[1].pc = "done"
    /\ tasks[2].pc = "done"
    /\ mpc = "join"

\* C9: each iteration tests the timeout first: with elapsed >= timeout the
\* check becomes TimedOut and evaluate is not called (a timeout of 0 allows
\* no attempt at all); otherwise evaluate is called once, and the check
\* becomes Ok on true, or sleeps retry and repeats on false.
C9_TimeoutFirst ==
    /\ [](\A c \in DOMAIN tasks :
            CurrentChecks[c].timeout = 0 =>
                /\ tasks[c].attempts = 0
                /\ tasks[c].pc \in {"spawned", "top", "write_timedout", "done"}
                /\ Checks(server_index)[c] # "Ok")
    /\ [][\A c \in DOMAIN tasks \cap DOMAIN tasks' :
            LET t == tasks[c]
                u == tasks'[c]
                cfg == CurrentChecks[c]
            IN  t.pc # u.pc =>
                  /\ t.pc = "top" =>
                        IF t.elapsed >= cfg.timeout
                        THEN u.pc = "write_timedout" /\ u.attempts = t.attempts
                        ELSE u.pc = "eval" /\ u.attempts = Min(t.attempts + 1, MaxAttempts)
                  /\ t.pc = "write_timedout" =>
                        /\ u.pc = "done" /\ u.attempts = t.attempts
                        /\ server_state'[server_index].checks[c] = "TimedOut"
                  /\ t.pc = "eval" =>
                        /\ u.attempts = t.attempts
                        /\ \/ u.pc = "write_ok"
                           \/ u.pc = "sleep" /\ u.sleep_left = cfg.retry
                  /\ t.pc = "write_ok" =>
                        /\ u.pc = "done" /\ u.attempts = t.attempts
                        /\ server_state'[server_index].checks[c] = "Ok"
                  /\ t.pc = "sleep" =>
                        /\ u.pc = "top" /\ u.attempts = t.attempts
                        /\ t.sleep_left = 0]_vars

\* a check with timeout 0 timed out unattempted, and its sibling became Ok
\* on a repeated attempt
C9_Witness ==
    /\ Len(tasks) = 2
    /\ CurrentChecks[1].timeout = 0
    /\ tasks[1].pc = "done"
    /\ tasks[1].ret = "TimedOut"
    /\ tasks[1].attempts = 0
    /\ tasks[2].pc = "done"
    /\ tasks[2].ret = "Ok"
    /\ tasks[2].attempts = 2

\* ------------------------------------------------- configuration errors
\* a definition validate_health_check is meant to refuse
Malformed(method) ==
    \/ method.type \in {"http", "shell"} /\ method.status = None /\ method.regex = None
    \/ method.type = "port" /\ method.ip \notin ValidIPs

HasBadCheck(svs) ==
    \E i \in DOMAIN svs : \E k \in DOMAIN svs[i].check : Malformed(svs[i].check[k].method)

ConfigErrors == {"BadHealthCheckDefinition", "UndefinedDependency", "CircularDependency"}

\* C15: when a health check is malformed, or a depends entry is undefined,
\* or the depends relation has a cycle, main returns a configuration error
\* from parse_server_dependencies, and no frame is transmitted, no check
\* task exists and no status table is built, at any point of the run.
C15_ConfigErrorsFirst ==
    (HasBadCheck(servers) \/ ~AllDefined(servers) \/ HasCycle(servers)) =>
        /\ mpc # "parse" =>
              /\ mpc = "done"
              /\ result[1] = "Err"
              /\ result[2] \in ConfigErrors
        /\ sent = <<>>
        /\ tasks = <<>>
        /\ server_state = <<>>
        /\ rpc = "off"

\* C15 restricted to configurations whose names are distinct
C15_ConfigErrorsFirstUnique ==
    UniqueNames(servers) => C15_ConfigErrorsFirst

\* a run refused for a malformed check of its second server
C15_WitnessUnique ==
    /\ mpc = "done"
    /\ UniqueNames(servers)
    /\ Len(servers) = 2
    /\ HasBadCheck(servers)
    /\ result[2] = "BadHealthCheckDefinition"
    /\ sent = <<>>

\* ---------------------------------------------- health-check validation
Validated == mpc = "validated"

\* the first malformed definition of the server, in listed order
FirstBad(checks) ==
    checks[CHOOSE k \in DOMAIN checks :
              /\ Malformed(checks[k].method)
              /\ \A j \in 1..(k - 1) : ~Malformed(checks[j].method)].method

\* C16: validation fails with BadHealthCheckDefinition exactly when some
\* check is an Http or a Shell check with neither status nor regex, or a Port
\* check whose ip does not parse; every other list of checks is accepted.
C16_Validation ==
    Validated =>
        /\ result[1] = "Err" <=> HasBadCheck(servers)
        /\ result[1] = "Err" =>
              /\ result[2] = "BadHealthCheckDefinition"
              /\ result[3] = FirstBad(servers[1].check).type
        /\ ~HasBadCheck(servers) => result = ReturnOk

\* the checks of test_valid_health_checks are accepted
C16_Witness ==
    /\ Validated
    /\ Len(servers[1].check) = 2
    /\ servers[1].check[1].method = HttpCheck(Some(200), None)
    /\ servers[1].check[2].method = ShellCheck(None, Some("ok"))
    /\ result = ReturnOk

\* a Port check with an address that does not parse is refused
C16_WitnessBadPort ==
    /\ Validated
    /\ Len(servers[1].check) = 2
    /\ servers[1].check[1].method = PortCheck("192.168.1.1")
    /\ servers[1].check[2].method = PortCheck("192.168.1.256")
    /\ result = ReturnErr(BadHealthCheckDefinition("port"))

\* a repeated name hides an undefined entry from the resolver
C15_WitnessShadowed ==
    /\ mpc = "send"
    /\ Len(servers) = 2
    /\ servers[1].name = servers[2].name
    /\ servers[2].depends = <<Ghost>>

\* ------------------------------------------------------------ the frame
Built == mpc \in {"built", "transmitted"}

TargetMac == octets(servers[1].mac)

\* the frame can be built: the address parses and the interface exists and
\* has a hardware address
CanBuild ==
    /\ servers[1].mac \in ValidMACs
    /\ servers[1].interface \in DOMAIN HostInterfaces
    /\ HostInterfaces[servers[1].interface] # None

\* buffer[from..to], with from and to counted from 0
Slice(buffer, from, to) == [k \in 1..(to - from) |-> buffer[from + k]]

\* the target address at each of the 16 places of the payload from `at` on
SixteenTimes(buffer, at, mac) ==
    \A r \in 0..15 : Slice(buffer, at + 6 * r, at + 6 * r + 6) = mac

\* C17: with a parsing MAC, an interface that has a hardware address and no
\* VLAN, build_wol_packet succeeds with 114 bytes: broadcast, the interface
\* MAC, 08 42, six FF, and the target MAC sixteen times.
C17_Frame ==
    (mpc # "build" /\ CanBuild /\ servers[1].vlan = None) =>
        /\ Built
        /\ Len(packet_buffer) = 114
        /\ Slice(packet_buffer, 0, 6) = <<255, 255, 255, 255, 255, 255>>
        /\ Slice(packet_buffer, 6, 12) = HostInterfaces[servers[1].interface][1]
        /\ Slice(packet_buffer, 12, 14) = <<8, 66>>
        /\ Slice(packet_buffer, 14, 20) = <<255, 255, 255, 255, 255, 255>>
        /\ SixteenTimes(packet_buffer, 20, TargetMac)

\* C17, amended: the frame has 116 bytes, 14 of header and 102 of magic
\* payload: broadcast, the interface MAC, 08 42, six FF, and in
\* bytes[20:116] the target MAC sixteen times.
C17_FrameAmended ==
    (mpc # "build" /\ CanBuild /\ servers[1].vlan = None) =>
        /\ Built
        /\ Len(packet_buffer) = 116
        /\ Slice(packet_buffer, 0, 6) = <<255, 255, 255, 255, 255, 255>>
        /\ Slice(packet_buffer, 6, 12) = HostInterfaces[servers[1].interface][1]
        /\ Slice(packet_buffer, 12, 14) = <<8, 66>>
        /\ Slice(packet_buffer, 14, 20) = <<255, 255, 255, 255, 255, 255>>
        /\ SixteenTimes(packet_buffer, 20, TargetMac)
        /\ Len(Slice(packet_buffer, 14, 116)) = 102

\* the frame of test_ethernet_packet
C17_Witness ==
    /\ mpc = "built"
    /\ servers[1].mac = "01:23:45:67:89:AB"
    /\ servers[1].vlan = None
    /\ Len(packet_buffer) = 116
    /\ Slice(packet_buffer, 110, 116) = <<1, 35, 69, 103, 137, 171>>

HasVlan == servers[1].vlan # None

VlanId == servers[1].vlan[1]

\* C18: with a parsing MAC, an interface that has a hardware address and a
\* VLAN id, build_wol_packet succeeds with 118 bytes: broadcast, the
\* interface MAC, 81 00, the tag big-endian, 08 42, six FF, and the target
\* MAC sixteen times.
C18_VlanFrame ==
    (mpc # "build" /\ CanBuild /\ HasVlan) =>
        /\ Built
        /\ Len(packet_buffer) = 118
        /\ Slice(packet_buffer, 0, 6) = <<255, 255, 255, 255, 255, 255>>
        /\ Slice(packet_buffer, 6, 12) = HostInterfaces[servers[1].interface][1]
        /\ Slice(packet_buffer, 12, 14) = <<129, 0>>
        /\ VlanId = 257 => Slice(packet_buffer, 14, 16) = <<1, 1>>
        /\ Slice(packet_buffer, 16, 18) = <<8, 66>>
        /\ Slice(packet_buffer, 18, 24) = <<255, 255, 255, 255, 255, 255>>
        /\ SixteenTimes(packet_buffer, 24, TargetMac)

\* C18, amended: the tagged frame has 120 bytes, 14 of header, 4 of tag and
\* inner EtherType and 102 of magic payload; the target MAC sixteen times
\* fills bytes[24:120], and the tag holds the low 12 bits of the id.
C18_VlanFrameAmended ==
    (mpc # "build" /\ CanBuild /\ HasVlan) =>
        /\ Built
        /\ Len(packet_buffer) = 120
        /\ Slice(packet_buffer, 0, 6) = <<255, 255, 255, 255, 255, 255>>
        /\ Slice(packet_buffer, 6, 12) = HostInterfaces[servers[1].interface][1]
        /\ Slice(packet_buffer, 12, 14) = <<129, 0>>
        /\ VlanId < 4096 =>
              256 * packet_buffer[15] + packet_buffer[16] = VlanId
        /\ VlanId = 257 => Slice(packet_buffer, 14, 16) = <<1, 1>>
        /\ Slice(packet_buffer, 16, 18) = <<8, 66>>
        /\ Slice(packet_buffer, 18, 24) = <<255, 255, 255, 255, 255, 255>>
        /\ SixteenTimes(packet_buffer, 24, TargetMac)

\* the frame of test_ethernet_packet_with_vlan
C18_Witness ==
    /\ mpc = "built"
    /\ servers[1].mac = "01:23:45:67:89:AB"
    /\ servers[1].vlan = Some(257)
    /\ Len(packet_buffer) = 120
    /\ Slice(packet_buffer, 12, 18) = <<129, 0, 1, 1, 8, 66>>
    /\ Slice(packet_buffer, 114, 120) = <<1, 35, 69, 103, 137, 171>>

BuildFailed == mpc = "build_failed"

\* C20: build_wol_packet returns a whole frame or an error and no frame: an
\* unparseable MAC gives InvalidMAC whatever the interface, an unknown
\* interface InterfaceNotFound, an interface without a hardware address an
\* error, and in these cases nothing is transmitted.
C20_BuildErrors ==
    mpc # "build" =>
        /\ BuildFailed =>
              /\ result[1] = "Err"
              /\ packet_buffer = <<>>
        /\ Built => Len(packet_buffer) = (IF HasVlan THEN 120 ELSE 116)
        /\ servers[1].mac \notin ValidMACs =>
              /\ BuildFailed
              /\ result = ReturnErr(InvalidMAC(servers[1].mac))
        /\ (servers[1].mac \in ValidMACs
              /\ servers[1].interface \notin DOMAIN HostInterfaces) =>
              /\ BuildFailed
              /\ result = ReturnErr(InterfaceNotFound(servers[1].interface))
        /\ (/\ servers[1].mac \in ValidMACs
            /\ servers[1].interface \in DOMAIN HostInterfaces
            /\ HostInterfaces[servers[1].interface] = None) =>
              /\ BuildFailed
              /\ result[2] = "NetworkError"
        /\ ~CanBuild => sent = <<>>

\* an unparseable MAC on an interface the host does not have
C20_Witness ==
    /\ BuildFailed
    /\ servers[1].mac = "not-a-mac"
    /\ servers[1].interface = "eth9"
    /\ result = ReturnErr(InvalidMAC("not-a-mac"))
    /\ packet_buffer = <<>>

\* an interface without a hardware address
C20_WitnessNoAddress ==
    /\ BuildFailed
    /\ servers[1].interface = "tun0"
    /\ result[2] = "NetworkError"

\* ------------------------------------------------------- one evaluation
Evaluated == mpc = "evaluated"

Method == servers[1].check[1].method

\* the configured status is the actual one
StatusHolds == Method.status = None \/ response.status = Method.status

\* the configured regex matches the body read, or the collected stdout
RegexHolds ==
    \/ Method.regex = None
    \/ response.body # None /\ is_match(Method.regex[1], response.body[1])

\* C21: an Http or Shell evaluation returns true exactly when the request
\* or command completed, the status, when set, is the actual one, and the
\* regex, when set, matches; a status mismatch returns false with the regex
\* never tested; a failed request or spawn returns false.
C21_Evaluate ==
    (Evaluated /\ Method.type \in {"http", "shell"}) =>
        /\ health.ok \in BOOLEAN
        /\ health.ok <=> (response.completed /\ StatusHolds /\ RegexHolds)
        /\ (response.completed /\ ~StatusHolds) => health = Verdict(FALSE, <<"status">>)
        /\ ~response.completed => health = Verdict(FALSE, <<>>)
        /\ (response.completed /\ StatusHolds /\ Method.status # None /\ Method.regex # None)
              => health.tested = <<"status", "regex">>

\* the status is the expected one and the body does not match: false, after
\* both tests
C21_Witness ==
    /\ Evaluated
    /\ Method = HttpCheck(Some(200), Some("ok"))
    /\ response = [completed |-> TRUE, status |-> Some(200), body |-> Some("starting")]
    /\ health = Verdict(FALSE, <<"status", "regex">>)

\* a Shell check ended by a signal has no exit code to equal the expected one
C21_WitnessSignal ==
    /\ Evaluated
    /\ Method = ShellCheck(Some(0), Some("ok"))
    /\ response = [completed |-> TRUE, status |-> None, body |-> Some("status: ok")]
    /\ health = Verdict(FALSE, <<"status">>)

\* ------------------------------------------------------ the run as a whole
Done == mpc = "done"

NoCheckTimedOut ==
    \A i \in DOMAIN server_state : \A c \in DOMAIN Checks(i) : Checks(i)[c] # "TimedOut"

AllOk(i) ==
    /\ Status(i) = "Ok"
    /\ \A c \in DOMAIN Checks(i) : Checks(i)[c] = "Ok"

\* C22: a run that has returned, in which the configuration was accepted,
\* no transmission failed and no check timed out, has transmitted to every
\* server of the wake order, in order, has every server and every check Ok,
\* and returned Ok.
C22_AllOk ==
    (/\ Done
     /\ result[2] \notin ConfigErrors
     /\ ~IsWolError(result)
     /\ NoCheckTimedOut) =>
        /\ result = ReturnOk
        /\ sent = [i \in 1..Len(wake_order) |-> i]
        /\ Len(server_state) = Len(wake_order)
        /\ \A i \in DOMAIN server_state : AllOk(i)

\* two servers with a check each, woken one after the other
C22_Witness ==
    /\ Done
    /\ result = ReturnOk
    /\ Len(wake_order) = 2
    /\ Len(wake_order[1].check) = 1
    /\ Len(wake_order[2].check) = 1
    /\ sent = <<1, 2>>
    /\ AllOk(1)
    /\ AllOk(2)

\* ------------------------------------------------- timeout and attempts
\* C23: the timeout interrupts neither a call of check_health nor a retry
\* sleep: a task inside the call stays there until it returns, to the sleep
\* or to the Ok write; a task in the Ok write ends with Ok; a sleep runs to
\* its end; and TimedOut is written only from the top of the loop.
C23_NotInterrupted ==
    [][\A c \in DOMAIN tasks \cap DOMAIN tasks' :
          /\ tasks[c].pc = "eval" => tasks'[c].pc \in {"eval", "sleep", "write_ok"}
          /\ tasks[c].pc = "write_ok" =>
                \/ tasks'[c].pc = "write_ok"
                \/ tasks'[c].pc = "done" /\ tasks'[c].ret = "Ok"
          /\ (tasks[c].pc = "sleep" /\ tasks[c].sleep_left > 0) => tasks'[c].pc = "sleep"
          /\ (tasks'[c].pc = "write_timedout" /\ tasks[c].pc # "write_timedout")
                => tasks[c].pc = "top"]_vars

\* an attempt returned true after the timeout had elapsed, and the check is Ok
C23_Witness ==
    /\ mpc = "join"
    /\ \E c \in DOMAIN tasks :
          /\ tasks[c].pc = "done"
          /\ tasks[c].ret = "Ok"
          /\ tasks[c].elapsed >= CurrentChecks[c].timeout
          /\ Checks(server_index)[c] = "Ok"

\* an attempt returned false after the timeout had elapsed, and the whole
\* retry sleep is still ahead
C23_WitnessSleep ==
    /\ mpc = "join"
    /\ \E c \in DOMAIN tasks :
          /\ tasks[c].pc = "sleep"
          /\ tasks[c].elapsed >= CurrentChecks[c].timeout
          /\ tasks[c].sleep_left = CurrentChecks[c].retry

\* ------------------------------------------------- the run under fairness
\* the configurations of a run that reaches its checks: distinct names in
\* the order of the file, no dependencies, and frames that can be built on
\* this host
LiveConfigs ==
    {svs \in RunConfigs :
        /\ \A i \in DOMAIN svs :
              /\ svs[i].name = ServerNames[i]
              /\ svs[i].mac = "00:11:22:33:44:55"
              /\ svs[i].interface = "eth0"
              /\ svs[i].depends = <<>>}

LiveInit ==
    /\ servers \in LiveConfigs
    /\ wake_order = <<>>
    /\ result = Pending
    /\ server_state = <<>>
    /\ lock = Free
    /\ mpc = "parse"
    /\ server_index = 0
    /\ check_index = 0
    /\ tasks = <<>>
    /\ join_index = 0
    /\ timeout = FALSE
    /\ phc_ret = ""
    /\ rpc = "off"
    /\ sent = <<>>
    /\ packet_buffer = <<>>
    /\ response = <<>>
    /\ health = <<>>

\* the steps of main that wait for nothing but the runtime, and for the
\* awaited task to have finished
MainStep ==
    \/ ParseServerDependencies
    \/ SendWolPacket
    \/ WriteWolSent
    \/ WriteRunning
    \/ StartJoin
    \/ JoinTask
    \/ WriteStatus
    \/ NextServer
    \/ AbortReturn
    \/ FinalReturn

\* the steps of main that take the lock
MainLock ==
    \/ LockWolSent
    \/ LockRunning
    \/ LockStatus
    \/ AbortLock
    \/ FinalLock

\* the steps of a check task that wait for nothing but the runtime; the
\* call of check_health returns, one way or the other
TaskStep(c) ==
    \/ TaskBegin(c)
    \/ TaskEvaluate(c)
    \/ TaskWriteTimedOut(c)
    \/ TaskEvalFalse(c)
    \/ TaskLockOk(c)
    \/ TaskWriteOk(c)
    \/ TaskWake(c)

\* The runtime runs every task that is ready, the clock advances, every
\* call of check_health returns, and a holder of the lock gives it back
\* without suspending. The renderer sleeps between two holds of the lock, so
\* a thread that waits for the lock finds it free again and again, and gets it.
LiveFairness ==
    /\ WF_vars(MainStep)
    /\ SF_vars(MainLock)
    /\ \A c \in 1..MaxChecks : WF_vars(TaskStep(c)) /\ SF_vars(TaskLockTimedOut(c))
    /\ WF_vars(Tick)
    /\ WF_vars(RenderUnlock)

LiveSpec == LiveInit /\ [][Next]_vars /\ LiveFairness

\* C24: under LiveFairness every check that is Running is later Ok or
\* TimedOut, and main returns.
C24_Terminates ==
    /\ \A i \in 1..MaxServers : \A c \in 1..MaxChecks :
          (i \in DOMAIN server_state /\ c \in DOMAIN Checks(i) /\ Checks(i)[c] = "Running")
              ~> (i \in DOMAIN server_state /\ c \in DOMAIN Checks(i) /\ Settled(Checks(i)[c]))
    /\ <>Done

\* main has returned after a server's two checks ended, one Ok and one TimedOut
C24_Witness ==
    /\ Done
    /\ Len(server_state) >= 1
    /\ result = ReturnErr(HealthCheckTimedOut(wake_order[1].name))
    /\ Checks(1) = <<"Ok", "TimedOut">>

\* ------------------------------------------------------ the scope of the lock
\* the steps that drop a guard
Release ==
    \/ WriteWolSent
    \/ WriteRunning
    \/ WriteStatus
    \/ AbortReturn
    \/ FinalReturn
    \/ RenderUnlock
    \/ \E c \in 1..MaxChecks : TaskWriteTimedOut(c) \/ TaskWriteOk(c)

\* main is between a lock() and the drop of its guard
MainWrites == mpc \in {"write_wol", "write_running", "write_status", "abort_render", "final_render"}

\* the check task c is between a lock() and the drop of its guard
TaskWrites(c) == c \in DOMAIN tasks /\ tasks[c].pc \in {"write_timedout", "write_ok"}

\* C25: the lock is held only between a lock() and the write or render that
\* follows it, never by a thread inside check_health, a retry sleep, the
\* render sleep or the await of a task; and while main runs, whoever holds
\* the lock can drop it at once, so no thread waits for it forever.
C25_LockScope ==
    /\ (lock = MainHolds) <=> MainWrites
    /\ (lock = RenderHolds) => rpc = "render"
    /\ (rpc = "render" /\ ~Done) => lock = RenderHolds
    /\ \A c \in 1..MaxChecks : (lock = CheckHolds(c)) <=> TaskWrites(c)
    /\ lock \in {Free, MainHolds, RenderHolds} \cup {CheckHolds(c) : c \in 1..MaxChecks}
    /\ (lock # Free /\ ~Done) => ENABLED Release

\* a check task holds the lock while another is inside check_health or its
\* retry sleep, main awaits a task, and the renderer waits for the lock
C25_Witness ==
    /\ mpc = "join"
    /\ rpc = "lock"
    /\ \E c, d \in DOMAIN tasks :
          /\ lock = CheckHolds(c)
          /\ tasks[d].pc \in {"eval", "sleep"}

\* ----------------------------------------------------- the shape of the table
\* the table is Ok before position k and Waiting after it
PrefixAt(k) ==
    /\ \A i \in 1..(k - 1) : AllOk(i)
    /\ \A i \in (k + 1)..Len(server_state) : AllWaiting(i)

\* C26: the table has a prefix shape: some position k has only Ok servers
\* with Ok checks before it and only Waiting servers with Waiting checks
\* after it (an empty table has the shape with no position at all); at most
\* one server is WOLSent; and a server that is still Waiting has only
\* Waiting checks.
C26_PrefixShape ==
    /\ Len(server_state) = 0 \/ \E k \in DOMAIN server_state : PrefixAt(k)
    /\ Cardinality({i \in DOMAIN server_state : Status(i) = "WOLSent"}) <= 1
    /\ \A i \in DOMAIN server_state : Status(i) = "Waiting" => AllWaiting(i)

\* the second of two servers is WOLSent with a Running check, the first is Ok
C26_Witness ==
    /\ Len(server_state) = 2
    /\ AllOk(1)
    /\ Len(Checks(1)) = 1
    /\ Status(2) = "WOLSent"
    /\ Checks(2) = <<"Running">>

\* the first of two servers has timed out, the second is still Waiting
C26_WitnessTimedOut ==
    /\ Len(server_state) = 2
    /\ Status(1) = "TimedOut"
    /\ Len(Checks(2)) = 1
    /\ AllWaiting(2)

\* ------------------------------------------------ the order as a permutation
\* the positions of the wake order that hold the server sv
Occurrences(sv) == {k \in DOMAIN wake_order : wake_order[k] = sv}

\* C27: with distinct names, a wake order that is returned holds every
\* server of the file exactly once, all fields as in the file, and nothing else.
C27_Permutation ==
    (ResolvedOk /\ UniqueNames(servers)) =>
        /\ Len(wake_order) = Len(servers)
        /\ \A i \in DOMAIN servers : Cardinality(Occurrences(servers[i])) = 1

\* three servers of distinct names, the last a dependency of both others,
\* and an order that differs from the file's
C27_Witness ==
    /\ ResolvedOk
    /\ UniqueNames(servers)
    /\ Len(servers) = 3
    /\ servers[1].depends = <<servers[3].name>>
    /\ servers[2].depends = <<servers[3].name>>
    /\ wake_order = <<servers[3], servers[1], servers[2]>>

====
